---- MODULE Spec2Model ----
(***************************************************************************)
(* The "Vanilla.js" recipe of create-tauri-app                             *)
(* (tooling/create-tauri-app/src/recipes/vanilla.ts): configUpdate,        *)
(* preInit and postInit, called by an orchestrator on one configuration    *)
(* object, one package manager and one working directory.                  *)
(*                                                                         *)
(* Representation.  A JavaScript object is a function from its own keys    *)
(* to its values; objects live in a heap indexed by references, so that    *)
(* "the same object" and "an equal object" are different things.  A        *)
(* string built by a template literal that is stored in the configuration *)
(* is a string (built with \o); a line printed on the console is the       *)
(* sequence of the pieces of its template literal (quasi, value, quasi,    *)
(* ...).  An absolute path is the sequence of its segments.                *)
(***************************************************************************)
EXTENDS Naturals, Sequences, FiniteSets, TLC

VARIABLES
    cwd,             \* the working directory handed to preInit
    packageManager,  \* the package manager handed to every hook
    cfgArg,          \* the reference the orchestrator holds as cfg (NullRef: undefined)
    heap,            \* reference -> object
    lastIn,          \* the cfg reference of the latest configUpdate call
    lastOut,         \* the reference returned by the latest configUpdate call
    inSnap,          \* the contents of the input of the latest call, when it was made
    produced,        \* references returned by configUpdate so far
    calls,           \* number of configUpdate calls made
    prePc,           \* preInit's promise: idle, generating, resolved, rejected
    target,          \* the output directory handed to scaffe.generate
    pending,         \* template files scaffe.generate still has to write
    fs,              \* the files written so far
    genErr,          \* the error raised in preInit's try block, "none" if none
    postPc,          \* postInit's promise: idle, resolved, rejected
    console          \* what console.log printed, one entry per call

vars == <<cwd, packageManager, cfgArg, heap, lastIn, lastOut, inSnap, produced,
          calls, prePc, target, pending, fs, genErr, postPc, console>>

\* ---------------------------------------------------------------- bounds

MaxCalls == 2

\* ------------------------------------------------------------- constants

NullRef == 0

OverrideKeys == {"distDir", "devPath", "beforeDevCommand", "beforeBuildCommand"}

PackageManagers == {"yarn", "npm", "pnpm"}

EmptyObj == [k \in {} |-> ""]

\* ------------------------------------------------------------- configUpdate

\* ${packageManager === "yarn" ? "yarn" : "npm run"}
Runner(pm) == IF pm = "yarn" THEN "yarn" ELSE "npm run"

Overrides(pm) ==
    [distDir            |-> "../dist",
     devPath            |-> "../dist",
     beforeDevCommand   |-> Runner(pm) \o " start",
     beforeBuildCommand |-> Runner(pm) \o " build"]

\* { ...a, ...b }: the keys of both, b's value where both have the key
Spread(a, b) ==
    [k \in DOMAIN a \cup DOMAIN b |-> IF k \in DOMAIN b THEN b[k] ELSE a[k]]

\* A bug: the overrides written first and cfg spread over them.
configUpdate_SpreadLast(cfg, pm) == Spread(Overrides(pm), cfg)

\* A bug: the result built from the overrides alone.
configUpdate_NoSpread(cfg, pm) == Overrides(pm)

\* A bug: the recipe's command chained after the one cfg already holds.
configUpdate_Chain(cfg, pm) ==
    Spread(cfg,
           [Overrides(pm) EXCEPT
              !.beforeDevCommand =
                  IF "beforeDevCommand" \in DOMAIN cfg
                  THEN cfg["beforeDevCommand"] \o " && " \o @
                  ELSE @])

\* ({ cfg, packageManager }) => ({ ...cfg, distDir: ..., ... }), on values
configUpdate(cfg, pm) == Spread(cfg, Overrides(pm))

\* The object a reference denotes for the spread: { ...undefined } is {}.
Deref(h, r) == IF r = NullRef THEN EmptyObj ELSE h[r]

NewRef(h) == CHOOSE r \in 1..(Cardinality(DOMAIN h) + 1) : r \notin DOMAIN h

\* A bug: Object.assign(cfg, {...}) instead of a fresh object literal.
configUpdateCall_InPlace(h, r, pm) ==
    IF r = NullRef
    THEN LET n == NewRef(h)
         IN  [heap |-> [x \in DOMAIN h \cup {n} |->
                           IF x = n THEN configUpdate(EmptyObj, pm) ELSE h[x]],
              ret  |-> n]
    ELSE [heap |-> [h EXCEPT ![r] = configUpdate(h[r], pm)], ret |-> r]

\* The call: the object literal allocates a fresh object and returns it.
configUpdateCall(h, r, pm) ==
    LET n == NewRef(h)
    IN  [heap |-> [x \in DOMAIN h \cup {n} |->
                      IF x = n THEN configUpdate(Deref(h, r), pm) ELSE h[x]],
         ret  |-> n]

\* ------------------------------------------------------------------- paths

\* The application names tried, as written on the command line.
AppNames == {"my-app", "a/b", "../evil", "../../..", "/etc", "./app"}

\* name.split("/")
Split(name) ==
    CASE name = "my-app"   -> <<"my-app">>
      [] name = "a/b"      -> <<"a", "b">>
      [] name = "../evil"  -> <<"..", "evil">>
      [] name = "../../.." -> <<"..", "..", "..">>
      [] name = "/etc"     -> <<"", "etc">>
      [] name = "./app"    -> <<".", "app">>

\* process.cwd(): an absolute path, already normalised.
Cwds == {<<"tmp", "x">>, <<"home">>}

\* path.normalize of an absolute path, segment by segment: "" and "." are
\* skipped, ".." removes the last segment kept and is dropped at the root.
RECURSIVE NormalizeString(_, _)
NormalizeString(res, segs) ==
    IF segs = <<>> THEN res
    ELSE LET s == Head(segs)
         IN  IF s = "" \/ s = "."
             THEN NormalizeString(res, Tail(segs))
             ELSE IF s = ".."
             THEN NormalizeString(IF res = <<>> THEN res
                                  ELSE SubSeq(res, 1, Len(res) - 1), Tail(segs))
             ELSE NormalizeString(Append(res, s), Tail(segs))

\* path.join(a, b) for an absolute a: normalize(a + "/" + b)
join(a, b) == NormalizeString(<<>>, a \o b)

\* A bug: the output directory is the working directory itself.
targetDir_Cwd(dir, appName) == dir

\* join(cwd, appName), the second argument of scaffe.generate
targetDir(dir, appName) == join(dir, Split(appName))

\* ----------------------------------------------------------------- preInit

\* The files of src/templates/vanilla, relative to it.
TemplateFiles == {<<"_package.json">>, <<"dist", "_index.html">>}

\* scaffe writes a template file "_name" as "name", under the output directory.
OutName(rel) ==
    CASE rel = <<"_package.json">>       -> <<"package.json">>
      [] rel = <<"dist", "_index.html">> -> <<"dist", "index.html">>

\* What scaffe.generate may throw (a file-system error, a template error).
GenErrors == {"EACCES", "TemplateError"}

\* console.log(err): an Error object is printed
ErrEntry(err) == [kind |-> "error", lines |-> << <<err>> >>]

\* console.log(`...`): a string is printed
TextEntry(lines) == [kind |-> "string", lines |-> lines]

\* A bug: no catch around the generation, the error leaves preInit.
onGenerateError_Rethrow(con, err) == [pc |-> "rejected", console |-> con]

\* catch (err) { console.log(err); } and the end of preInit
onGenerateError(con, err) == [pc |-> "resolved", console |-> Append(con, ErrEntry(err))]

\* ---------------------------------------------------------------- postInit

\* The value of setApp, line by line: it starts with a line break.
setApp(pm) ==
    IF pm = "npm"
    THEN << <<>>,
            <<"set tauri script once">>,
            <<"  $ npm set-script tauri tauri">>,
            <<"    ">> >>
    ELSE << <<>> >>

\* ${cfg.appName}: a missing key prints as "undefined"
AppNameText(cfg) == IF "appName" \in DOMAIN cfg THEN cfg["appName"] ELSE "undefined"

\* ${packageManager === "npm" ? "-- " : ""}
ArgSep(pm) == IF pm = "npm" THEN "-- " ELSE ""

\* A bug: the script-registration step printed for every package manager.
postInitText_AlwaysSet(cfg, pm) ==
    << <<>>,
       <<"change directory:">>,
       <<"  $ cd ", AppNameText(cfg)>> >>
    \o setApp("npm") \o
    << <<"install dependencies:">>,
       <<"  $ ", pm, " install">>,
       <<>>,
       <<"run the app:">>,
       <<"  $ ", Runner(pm), " tauri ", ArgSep(pm), "dev">>,
       <<"            ">> >>

\* A bug: the install step printed before the script-registration step.
postInitText_InstallFirst(cfg, pm) ==
    << <<>>,
       <<"change directory:">>,
       <<"  $ cd ", AppNameText(cfg)>>,
       <<"install dependencies:">>,
       <<"  $ ", pm, " install">> >>
    \o setApp(pm) \o
    << <<>>,
       <<"run the app:">>,
       <<"  $ ", Runner(pm), " tauri ", ArgSep(pm), "dev">>,
       <<"            ">> >>

\* The template literal handed to console.log, line by line.
postInitText(cfg, pm) ==
    << <<>>,
       <<"change directory:">>,
       <<"  $ cd ", AppNameText(cfg)>> >>
    \o setApp(pm) \o
    << <<"install dependencies:">>,
       <<"  $ ", pm, " install">>,
       <<>>,
       <<"run the app:">>,
       <<"  $ ", Runner(pm), " tauri ", ArgSep(pm), "dev">>,
       <<"            ">> >>

\* postInit has no try: reading cfg.appName of an undefined cfg throws, and the
\* async function's promise rejects; otherwise the text is logged.
postInit(h, r, pm, con) ==
    IF r = NullRef
    THEN [pc |-> "rejected", console |-> con]
    ELSE [pc |-> "resolved", console |-> Append(con, TextEntry(postInitText(h[r], pm)))]

\* ------------------------------------------------------------------- inputs

Absent == "<absent>"

Options(k) ==
    CASE k = "distDir"            -> {Absent, "../dist", "build"}
      [] k = "devPath"            -> {Absent, "http://localhost:4000"}
      [] k = "beforeDevCommand"   -> {Absent, "npm run start"}
      [] k = "beforeBuildCommand" -> {Absent, "make"}
      [] k = "appName"            -> {Absent} \cup AppNames
      [] k = "window"             -> {Absent, "main"}

CfgKeys == OverrideKeys \cup {"appName", "window"}

\* The object holding the keys whose option is not Absent.
MkObj(full) == [k \in {x \in DOMAIN full : full[x] # Absent} |-> full[k]]

\* The configurations tried: every combination of the build keys with a plain
\* appName or none, and every appName with two combinations of the build keys.
Configs ==
    { MkObj([distDir |-> d, devPath |-> p, beforeDevCommand |-> bd,
             beforeBuildCommand |-> bb, appName |-> an, window |-> w]) :
        d \in Options("distDir"), p \in Options("devPath"),
        bd \in Options("beforeDevCommand"), bb \in Options("beforeBuildCommand"),
        an \in {Absent, "my-app"}, w \in Options("window") }
    \cup
    { MkObj([distDir |-> d, devPath |-> d, beforeDevCommand |-> Absent,
             beforeBuildCommand |-> Absent, appName |-> an, window |-> Absent]) :
        d \in {Absent, "../dist"}, an \in AppNames }

\* ----------------------------------------------------------- state machine

Init ==
    /\ cwd \in Cwds
    /\ packageManager \in PackageManagers
    /\ \/ /\ cfgArg = NullRef
          /\ heap = <<>>
       \/ /\ cfgArg = 1
          /\ \E c \in Configs : heap = <<c>>
    /\ lastIn = NullRef
    /\ lastOut = NullRef
    /\ inSnap = EmptyObj
    /\ produced = {}
    /\ calls = 0
    /\ prePc = "idle"
    /\ target = <<>>
    /\ pending = {}
    /\ fs = {}
    /\ genErr = "none"
    /\ postPc = "idle"
    /\ console = <<>>

\* recipe.configUpdate({ cfg, packageManager }), on the orchestrator's cfg or
\* on a configuration an earlier call returned
ConfigUpdate ==
    /\ calls < MaxCalls
    /\ \E r \in {cfgArg} \cup produced :
         LET call == configUpdateCall(heap, r, packageManager)
         IN  /\ heap' = call.heap
             /\ lastIn' = r
             /\ lastOut' = call.ret
             /\ inSnap' = Deref(heap, r)
             /\ produced' = produced \cup {call.ret}
    /\ calls' = calls + 1
    /\ UNCHANGED <<cwd, packageManager, cfgArg, prePc, target, pending, fs,
                   genErr, postPc, console>>

\* recipe.preInit({ cwd, cfg }) up to its await.  const { appName } = cfg
\* throws for an undefined cfg, outside the try: the promise rejects.
\* join(cwd, appName) throws for an appName that is no string, inside the try.
PreInitCall ==
    /\ prePc = "idle"
    /\ IF cfgArg = NullRef
       THEN /\ prePc' = "rejected"
            /\ UNCHANGED <<target, pending, genErr, console>>
       ELSE IF "appName" \notin DOMAIN heap[cfgArg]
       THEN LET h == onGenerateError(console, "TypeError")
            IN  /\ prePc' = h.pc
                /\ console' = h.console
                /\ genErr' = "TypeError"
                /\ UNCHANGED <<target, pending>>
       ELSE /\ prePc' = "generating"
            /\ target' = targetDir(cwd, heap[cfgArg]["appName"])
            /\ pending' = TemplateFiles
            /\ UNCHANGED <<genErr, console>>
    /\ UNCHANGED <<cwd, packageManager, cfgArg, heap, lastIn, lastOut, inSnap,
                   produced, calls, fs, postPc>>

\* scaffe.generate writes one more file of the template
GenerateWrite ==
    /\ prePc = "generating"
    /\ \E f \in pending :
         /\ fs' = fs \cup {target \o OutName(f)}
         /\ pending' = pending \ {f}
    /\ UNCHANGED <<cwd, packageManager, cfgArg, heap, lastIn, lastOut, inSnap,
                   produced, calls, prePc, target, genErr, postPc, console>>

\* scaffe.generate's promise resolves: preInit ends
GenerateDone ==
    /\ prePc = "generating"
    /\ pending = {}
    /\ prePc' = "resolved"
    /\ UNCHANGED <<cwd, packageManager, cfgArg, heap, lastIn, lastOut, inSnap,
                   produced, calls, target, pending, fs, genErr, postPc,
                   console>>

\* scaffe.generate's promise rejects, with some of the files written
GenerateFail ==
    /\ prePc = "generating"
    /\ \E err \in GenErrors :
         LET h == onGenerateError(console, err)
         IN  /\ prePc' = h.pc
             /\ console' = h.console
             /\ genErr' = err
    /\ UNCHANGED <<cwd, packageManager, cfgArg, heap, lastIn, lastOut, inSnap,
                   produced, calls, target, pending, fs, postPc>>

\* recipe.postInit({ cfg, packageManager })
PostInit ==
    /\ postPc = "idle"
    /\ \E r \in {cfgArg} \cup produced :
         LET out == postInit(heap, r, packageManager, console)
         IN  /\ postPc' = out.pc
             /\ console' = out.console
    /\ UNCHANGED <<cwd, packageManager, cfgArg, heap, lastIn, lastOut, inSnap,
                   produced, calls, prePc, target, pending, fs, genErr>>

Next ==
    \/ ConfigUpdate
    \/ PreInitCall
    \/ GenerateWrite
    \/ GenerateDone
    \/ GenerateFail
    \/ PostInit

Spec == Init /\ [][Next]_vars

\* ------------------------------------------------------------ configUpdate

Called == lastOut # NullRef

Result == heap[lastOut]

\* C1: configUpdate leaves every key outside distDir, devPath,
\* beforeDevCommand and beforeBuildCommand as it was: the result has exactly
\* the input's other keys, each with the input's value.
C1_OtherKeysPreserved ==
    Called =>
        /\ DOMAIN Result \ OverrideKeys = DOMAIN inSnap \ OverrideKeys
        /\ \A k \in DOMAIN inSnap \ OverrideKeys : Result[k] = inSnap[k]

C1_Witness ==
    /\ Called
    /\ DOMAIN inSnap = CfgKeys
    /\ inSnap["appName"] = "my-app"
    /\ Result["appName"] = "my-app"
    /\ Result["window"] = "main"
    /\ Result["distDir"] # inSnap["distDir"]

\* C2: configUpdate sets distDir and devPath to "../dist" and the two commands
\* to "yarn start"/"yarn build" for yarn and "npm run start"/"npm run build"
\* for npm, whatever the input held under those keys.
C2_OverridesSet ==
    Called =>
        /\ OverrideKeys \subseteq DOMAIN Result
        /\ Result["distDir"] = "../dist"
        /\ Result["devPath"] = "../dist"
        /\ packageManager = "yarn" =>
              /\ Result["beforeDevCommand"] = "yarn start"
              /\ Result["beforeBuildCommand"] = "yarn build"
        /\ packageManager = "npm" =>
              /\ Result["beforeDevCommand"] = "npm run start"
              /\ Result["beforeBuildCommand"] = "npm run build"

C2_Witness ==
    /\ Called
    /\ packageManager = "yarn"
    /\ OverrideKeys \subseteq DOMAIN inSnap
    /\ inSnap["distDir"] = "build"
    /\ inSnap["beforeDevCommand"] = "npm run start"
    /\ Result["beforeDevCommand"] = "yarn start"

\* C3: configUpdate is idempotent: called on a configuration that configUpdate
\* returned (for the same package manager), it returns an equal configuration.
C3_Idempotent ==
    (Called /\ lastIn \in produced) => Result = inSnap

C3_Witness ==
    /\ Called
    /\ lastIn \in produced
    /\ lastIn # lastOut
    /\ cfgArg # NullRef
    /\ "beforeDevCommand" \in DOMAIN heap[cfgArg]
    /\ heap[cfgArg] # Result

\* C4: configUpdate does not mutate its input: a call leaves every object that
\* existed before it, the input among them, with the keys and values it had,
\* and returns an object that did not exist before.
C4_InputNotMutated ==
    [][calls' # calls =>
         /\ \A r \in DOMAIN heap : r \in DOMAIN heap' /\ heap'[r] = heap[r]
         /\ lastOut' \notin DOMAIN heap
         /\ lastOut' \in DOMAIN heap']_vars

C4_Witness ==
    /\ Called
    /\ lastIn = cfgArg
    /\ cfgArg # NullRef
    /\ OverrideKeys \subseteq DOMAIN heap[cfgArg]
    /\ heap[cfgArg] = inSnap
    /\ heap[cfgArg]["distDir"] = "build"
    /\ Result["distDir"] = "../dist"

\* ----------------------------------------------------------------- preInit

Logged(entry) == \E i \in DOMAIN console : console[i] = entry

\* C5: an error raised by the generation step is caught inside preInit and
\* logged, and preInit's promise resolves (it never rejects for that).
C5_GenerateErrorCaught ==
    genErr # "none" =>
        /\ prePc = "resolved"
        /\ Logged(ErrEntry(genErr))

C5_Witness ==
    /\ genErr \in GenErrors
    /\ fs # {}
    /\ pending # {}
    /\ prePc = "resolved"
    /\ calls > 0
    /\ postPc = "resolved"

\* The directory <cwd>/<appName> as the file system resolves it: from cwd, one
\* segment of appName after the other.
RECURSIVE Walk(_, _)
Walk(dir, segs) ==
    IF segs = <<>> THEN dir
    ELSE LET s == Head(segs)
         IN  Walk(IF s = ".." THEN (IF dir = <<>> THEN dir
                                    ELSE SubSeq(dir, 1, Len(dir) - 1))
                  ELSE IF s = "" \/ s = "." THEN dir
                  ELSE Append(dir, s),
                  Tail(segs))

IsPrefix(a, b) == Len(a) <= Len(b) /\ SubSeq(b, 1, Len(a)) = a

Root == Walk(cwd, Split(heap[cfgArg]["appName"]))

C6_PostInitNeverRejects == postPc # "rejected"

Printed == postPc = "resolved"

PostLines ==
    LET i == CHOOSE j \in DOMAIN console : console[j].kind = "string"
    IN  console[i].lines

IsCd(line) == Len(line) = 2 /\ line[1] = "  $ cd "

IsSetScript(line) == line = <<"  $ npm set-script tauri tauri">>

IsInstall(line) == Len(line) = 3 /\ line[1] = "  $ " /\ line[3] = " install"

IsRun(line) == Len(line) = 5 /\ line[1] = "  $ " /\ line[3] = " tauri " /\ line[5] = "dev"

CdAt == {i \in DOMAIN PostLines : IsCd(PostLines[i])}

SetScriptAt == {i \in DOMAIN PostLines : IsSetScript(PostLines[i])}

InstallAt == {i \in DOMAIN PostLines : IsInstall(PostLines[i])}

RunAt == {i \in DOMAIN PostLines : IsRun(PostLines[i])}

\* C7: postInit prints the script-registration step
\* ("npm set-script tauri tauri") for npm and does not print it for yarn.
C7_SetScriptForNpmOnly ==
    Printed =>
        /\ packageManager = "npm" => SetScriptAt # {}
        /\ packageManager = "yarn" => SetScriptAt = {}

C7_Witness ==
    /\ Printed
    /\ packageManager = "npm"
    /\ Cardinality(SetScriptAt) = 1

\* C8: for every package manager, postInit prints cd, install and run once
\* each, in that order, and the script-registration step, when printed, once,
\* between cd and install.
C8_StepOrder ==
    Printed =>
        /\ Cardinality(CdAt) = 1
        /\ Cardinality(InstallAt) = 1
        /\ Cardinality(RunAt) = 1
        /\ Cardinality(SetScriptAt) <= 1
        /\ \A c \in CdAt, i \in InstallAt, r \in RunAt : c < i /\ i < r
        /\ \A c \in CdAt, s \in SetScriptAt, i \in InstallAt : c < s /\ s < i

C8_Witness ==
    /\ Printed
    /\ packageManager = "npm"
    /\ SetScriptAt # {}
    /\ \E c \in CdAt, s \in SetScriptAt, i \in InstallAt, r \in RunAt :
          c < s /\ s < i /\ i < r
    /\ PostLines[CHOOSE c \in CdAt : TRUE] = <<"  $ cd ", "my-app">>

\* The package manager a runner belongs to.
ToolOf(runner) == IF runner = "npm run" THEN "npm" ELSE runner

RunLine == PostLines[CHOOSE i \in RunAt : TRUE]

InstallLine == PostLines[CHOOSE i \in InstallAt : TRUE]

\* C10: for every package manager, the runner of configUpdate's two commands,
\* the runner of postInit's run step and the tool of postInit's install step
\* belong to one package manager, and the run step has "-- " exactly when its
\* runner is "npm run".
C10_OneTool ==
    (Called /\ Printed) =>
        /\ Result["beforeDevCommand"] = RunLine[2] \o " start"
        /\ Result["beforeBuildCommand"] = RunLine[2] \o " build"
        /\ ToolOf(RunLine[2]) = InstallLine[2]
        /\ (RunLine[4] = "-- ") <=> (RunLine[2] = "npm run")

====
